---- MODULE Spec2Model ----
(***************************************************************************)
(* SOACRS service: plan building (PlanBuilderService), candidate scoring   *)
(* (ScoringEngine) and telemetry aggregation (MetricsService over the      *)
(* PostgresMetricsRepository).                                             *)
(*                                                                         *)
(* Numbers.  The service computes with JavaScript numbers.  The model      *)
(* computes with exact rationals <<n, d>> (d > 0, lowest terms), so every  *)
(* comparison below is the comparison of the real-number values; NaN is    *)
(* the separate token NaN.                                                 *)
(***************************************************************************)
EXTENDS Integers, Sequences, FiniteSets, Bags, TLC

(* ------------------------------ bounds --------------------------------- *)

MaxTools == 2          \* longest tool list the registry returns
MaxTelemetry == 2      \* telemetry calls (execution + feedback) per behaviour
MaxPlans == 1          \* buildPlan calls per behaviour
LoopMaxPlans == 2      \* buildPlan calls per behaviour of the learning loop
LoopMaxTelemetry == 5  \* telemetry calls per behaviour of the learning loop
MaxConcurrent == 3     \* recordExecution calls in flight at once
MaxScoreTools == 2     \* longest candidate list handed to scoreCandidates

(* ---------------------------- rationals -------------------------------- *)

RECURSIVE Gcd(_, _)
Gcd(a, b) == IF b = 0 THEN a ELSE Gcd(b, a % b)

Abs(x) == IF x < 0 THEN -x ELSE x

Rat(n, d) ==
  LET s == IF d < 0 THEN -1 ELSE 1
      g == Gcd(Abs(n), Abs(d))
  IN  <<(s * n) \div g, (s * d) \div g>>

Int2R(n) == <<n, 1>>
Zero == <<0, 1>>
One == <<1, 1>>
Half == <<1, 2>>

RAdd(x, y) ==
  LET g == Gcd(x[2], y[2])
      l == (x[2] \div g) * y[2]
  IN  Rat(x[1] * (l \div x[2]) + y[1] * (l \div y[2]), l)

RNeg(x) == <<-x[1], x[2]>>
RSub(x, y) == RAdd(x, RNeg(y))
RMul(x, y) ==
  LET a == Rat(x[1], y[2])
      b == Rat(y[1], x[2])
  IN  <<a[1] * b[1], a[2] * b[2]>>
RDiv(x, y) == RMul(x, Rat(y[2], y[1]))
RLt(x, y) == RSub(x, y)[1] < 0
RLe(x, y) == RSub(x, y)[1] <= 0

\* Math.trunc: the integer part, rounding toward zero.
Trunc(x) == IF x[1] >= 0 THEN x[1] \div x[2] ELSE -((-x[1]) \div x[2])

Max(a, b) == IF a >= b THEN a ELSE b

\* NaN is the pair with denominator 0; an absent optional number is the empty
\* tuple; an absent metrics row (null) is the record Null.
NaN == <<0, 0>>
Undefined == <<>>
Null == [null |-> TRUE]
IsNaN(v) == v = NaN

(* --------------------------- ScoringEngine ----------------------------- *)

DEFAULT_SCORING_CONFIG ==
  [ weights |-> [fit |-> <<1, 2>>, sla |-> <<1, 4>>, reward |-> <<3, 20>>, cost |-> <<1, 10>>],
    defaultSuccessRate |-> <<4, 5>>,
    defaultLatencyMs |-> <<800, 1>>,
    defaultReward |-> <<1, 2>>,
    maxReasonableLatencyMs |-> <<2000, 1>>,
    slaSuccessWeight |-> <<7, 10>>,
    slaLatencyWeight |-> <<3, 10>> ]

clamp01_upperOnly(value) ==
  IF IsNaN(value) THEN Zero
  ELSE IF RLt(One, value) THEN One
  ELSE value

clamp01(value) ==
  IF IsNaN(value) THEN Zero
  ELSE IF RLt(value, Zero) THEN Zero
  ELSE IF RLt(One, value) THEN One
  ELSE value

positiveOrFallback(value, fallback) ==
  IF IsNaN(value) THEN fallback
  ELSE IF RLe(value, Zero) THEN fallback
  ELSE value

numberOrFallback(value, fallback) ==
  IF value = Undefined THEN fallback
  ELSE IF IsNaN(value) THEN fallback
  ELSE value

computeCapabilityFit_always(tool, capability) == One

computeCapabilityFit(tool, capability) ==
  IF \E c \in tool.capabilities : c = capability THEN One ELSE Zero

computeNormalizedCost_noNeutral(cost, minCost, maxCost) ==
  IF maxCost = minCost THEN Zero
  ELSE RDiv(RSub(cost, minCost), RSub(maxCost, minCost))

computeNormalizedCost_inverted(cost, minCost, maxCost) ==
  IF maxCost = minCost THEN Half
  ELSE RDiv(RSub(maxCost, cost), RSub(maxCost, minCost))

computeNormalizedCost(cost, minCost, maxCost) ==
  IF maxCost = minCost THEN Half
  ELSE RDiv(RSub(cost, minCost), RSub(maxCost, minCost))

computeSlaInputs(cfg, metrics) ==
  IF metrics = Null
  THEN [ successRate |-> clamp01(cfg.defaultSuccessRate),
         avgLatencyMs |-> positiveOrFallback(cfg.defaultLatencyMs, cfg.defaultLatencyMs) ]
  ELSE
    LET totalRuns == metrics.successCount + metrics.failureCount
    IN  [ successRate |->
            IF totalRuns > 0
            THEN clamp01(Rat(metrics.successCount, totalRuns))
            ELSE clamp01(cfg.defaultSuccessRate),
          avgLatencyMs |->
            IF totalRuns > 0
            THEN positiveOrFallback(Rat(metrics.totalLatencyMs, totalRuns), cfg.defaultLatencyMs)
            ELSE positiveOrFallback(cfg.defaultLatencyMs, cfg.defaultLatencyMs) ]

computeSlaLikelihood_successOnly(cfg, successRate, avgLatencyMs) ==
  clamp01(RMul(cfg.slaSuccessWeight, clamp01(successRate)))

computeSlaLikelihood(cfg, successRate, avgLatencyMs) ==
  LET latencyScore ==
        clamp01(RSub(One, RDiv(avgLatencyMs,
                               positiveOrFallback(cfg.maxReasonableLatencyMs, <<2000, 1>>))))
      sla == RAdd(RMul(cfg.slaSuccessWeight, clamp01(successRate)),
                  RMul(cfg.slaLatencyWeight, latencyScore))
  IN  clamp01(sla)

computePastReward_default(cfg, metrics) == clamp01(cfg.defaultReward)

computePastReward(cfg, metrics) ==
  IF metrics = Null
  THEN clamp01(cfg.defaultReward)
  ELSE clamp01(RAdd(Half, RDiv(metrics.avgReward, <<2, 1>>)))

scoreCandidateInternal(cfg, tool, metrics, capabilityFit, normalizedCost) ==
  LET inputs == computeSlaInputs(cfg, metrics)
      slaLikelihood == computeSlaLikelihood(cfg, inputs.successRate, inputs.avgLatencyMs)
      pastReward == computePastReward(cfg, metrics)
      weights == cfg.weights
      score == RAdd(RAdd(RMul(weights.fit, capabilityFit),
                         RMul(weights.sla, slaLikelihood)),
                    RAdd(RMul(weights.reward, pastReward),
                         RMul(weights.cost, RSub(One, normalizedCost))))
  IN  [ toolId |-> tool.id,
        score |-> clamp01(score),
        explain |-> [ capabilityFit |-> clamp01(capabilityFit),
                      slaLikelihood |-> clamp01(slaLikelihood),
                      pastReward |-> clamp01(pastReward),
                      normalizedCost |-> clamp01(normalizedCost),
                      weights |-> weights ] ]

\* Math.min / Math.max over the spread costs.
RMinOf(costs) == CHOOSE m \in {costs[i] : i \in DOMAIN costs} :
                   \A i \in DOMAIN costs : RLe(m, costs[i])
RMaxOf(costs) == CHOOSE m \in {costs[i] : i \in DOMAIN costs} :
                   \A i \in DOMAIN costs : RLe(costs[i], m)

\* Array.prototype.sort with comparator (a, b) => b.score - a.score: a stable
\* sort, so an element goes behind every element whose score is not lower.
RECURSIVE InsertByScore(_, _)
InsertByScore(sorted, e) ==
  IF sorted = <<>> THEN <<e>>
  ELSE IF RLt(Head(sorted).score, e.score)
       THEN <<e>> \o sorted
       ELSE <<Head(sorted)>> \o InsertByScore(Tail(sorted), e)

RECURSIVE SortByScore(_, _)
SortByScore(scored, acc) ==
  IF scored = <<>> THEN acc
  ELSE SortByScore(Tail(scored), InsertByScore(acc, Head(scored)))

\* metricsByToolId is a function from tool ids to a metrics row or Null;
\* ids outside its domain read as Null (Map.get(...) ?? null).
MapGet(metricsByToolId, toolId) ==
  IF toolId \in DOMAIN metricsByToolId THEN metricsByToolId[toolId] ELSE Null

scoreCandidates(cfg, tenantTools, metricsByToolId, capability) ==
  IF tenantTools = <<>> THEN <<>>
  ELSE
    LET costs == [i \in DOMAIN tenantTools |-> numberOrFallback(tenantTools[i].baseCost, One)]
        minCost == RMinOf(costs)
        maxCost == RMaxOf(costs)
        scored == [i \in DOMAIN tenantTools |->
                     scoreCandidateInternal(
                       cfg, tenantTools[i], MapGet(metricsByToolId, tenantTools[i].id),
                       computeCapabilityFit(tenantTools[i], capability),
                       computeNormalizedCost(numberOrFallback(tenantTools[i].baseCost, One),
                                             minCost, maxCost))]
    IN  SortByScore(scored, <<>>)

(* ------------------------- domain values ------------------------------ *)

Tenant == "acme"
ToolIds == {"a", "b", "c"}
Caps == {"c1", "c2"}
Keys == {<<Tenant, t, c>> : t \in ToolIds, c \in Caps}

\* JSON values of tool.meta.endpoint carry their JavaScript type.
Str(s) == <<"string", s>>
Num(n) == <<"number", n>>
Undef == <<"undefined", "">>
TypeOf(v) == v[1]

GoodEndpoint ==
  [type |-> Str("http"), url |-> Str("https://ehr"), method |-> Str("POST"), timeoutMs |-> Num("800")]
BadEndpoint ==
  [type |-> Str("http"), url |-> Str("https://rpa"), method |-> Str("PATCH"), timeoutMs |-> Str("1200")]
NoEndpoint == [type |-> Undef, url |-> Undef, method |-> Undef, timeoutMs |-> Undef]

\* The tools a registry may hold for the tenant.
Catalogue ==
  { [id |-> "a", baseCost |-> <<1, 10>>, capabilities |-> {"c1"}, endpoint |-> GoodEndpoint],
    [id |-> "b", baseCost |-> <<1, 10>>, capabilities |-> {"c1"}, endpoint |-> BadEndpoint],
    [id |-> "c", baseCost |-> Undefined, capabilities |-> {"c2"}, endpoint |-> NoEndpoint] }

\* What the registry may answer: tools of the catalogue, each id at most once
\* (Tool.id is the tool's unique identifier in the registry).
ToolLists ==
  {l \in UNION {[1..n -> Catalogue] : n \in 0..MaxTools} :
     \A i, j \in DOMAIN l : l[i].id = l[j].id => i = j}

\* The tools telemetry arrives for.
TelemetryToolIds == {"a", "b"}

\* Telemetry inputs, as the DTO validators admit them: a finite latency >= 0
\* (possibly fractional) and a reward in [-1, 1].
Executions == {[success |-> TRUE, latencyMs |-> <<401, 2>>],
               [success |-> FALSE, latencyMs |-> <<3000, 1>>]}
Rewards == {<<1, 1>>, <<-1, 2>>}

\* The ISO timestamp string telemetry payloads carry.
EventTimestamp == "2026-01-01T00:00:00.000Z"

VARIABLES
  toolMetrics,      \* table ToolMetrics: key -> row or Null
  executionEvents,  \* table ExecutionEvent (audit trail), a bag of rows
  planDocuments,    \* table PlanDocument, rows in insertion order
  clock,            \* the current time, in ms
  nextPlanId,       \* planIdProvider: ids handed out so far
  bp,               \* the buildPlan call in flight or last finished
  last,             \* the telemetry call last finished: input and row read
  nTelemetry,       \* telemetry calls finished
  inflight,         \* recordExecution calls running concurrently, by call number
  scoring,          \* the scoreCandidates call last made: arguments and result
  mixing,           \* the ewma application last made by a MetricsService
  feedbackCall      \* the recordFeedbackTelemetry call running beside recordExecution

vars == <<toolMetrics, executionEvents, planDocuments, clock, nextPlanId, bp, last, nTelemetry,
          inflight, scoring, mixing, feedbackCall>>

(* --------------------- PostgresMetricsRepository ----------------------- *)

safeBigIntToNumber(value) == value
safeDecimalToNumber(value) == IF IsNaN(value) THEN Zero ELSE value

mapRowToDomainMetrics(row) ==
  [ tenantId |-> row.tenantId,
    toolId |-> row.toolId,
    capability |-> row.capability,
    successCount |-> safeBigIntToNumber(row.successCount),
    failureCount |-> safeBigIntToNumber(row.failureCount),
    totalLatencyMs |-> safeBigIntToNumber(row.totalLatencyMs),
    avgReward |-> safeDecimalToNumber(row.avgReward),
    lastUpdated |-> row.lastUpdated ]

getMetrics(table, tenantId, toolId, capability) ==
  LET key == <<tenantId, toolId, capability>>
  IN  IF key \notin DOMAIN table \/ table[key] = Null
      THEN Null
      ELSE mapRowToDomainMetrics(table[key])

successInc(event) == IF event.success THEN 1 ELSE 0
failureInc_never(event) == 0

failureInc(event) == IF event.success THEN 0 ELSE 1

latencyInc_successOnly(event) ==
  IF event.success THEN Max(0, Trunc(event.latencyMs)) ELSE 0

latencyInc(event) == Max(0, Trunc(event.latencyMs))

\* The ToolMetrics table after the create or update of recordExecution(event),
\* issued at time now with the row that findUnique returned.
recordExecutionWrite(table, existing, event, now) ==
  LET key == <<event.tenantId, event.toolId, event.capability>>
  IN  IF existing = Null
      THEN [table EXCEPT ![key] =
              [ tenantId |-> event.tenantId, toolId |-> event.toolId,
                capability |-> event.capability,
                successCount |-> successInc(event),
                failureCount |-> failureInc(event),
                totalLatencyMs |-> latencyInc(event),
                avgReward |-> Zero,
                lastUpdated |-> now ]]
      ELSE [table EXCEPT ![key] =
              [ tenantId |-> event.tenantId, toolId |-> event.toolId,
                capability |-> event.capability,
                successCount |-> existing.successCount + successInc(event),
                failureCount |-> existing.failureCount + failureInc(event),
                totalLatencyMs |-> existing.totalLatencyMs + latencyInc(event),
                avgReward |-> existing.avgReward,
                lastUpdated |-> now ]]

\* The ToolMetrics table after recordExecution(event) at time now, when no
\* other call touches the table between its findUnique and its write.
recordExecution(table, event, now) ==
  recordExecutionWrite(table, table[<<event.tenantId, event.toolId, event.capability>>],
                       event, now)

\* The ExecutionEvent row recordExecution(event) inserts.
executionEventRow(event) ==
  [ planId |-> event.planId, stepId |-> event.stepId, tenantId |-> event.tenantId,
    toolId |-> event.toolId, capability |-> event.capability,
    latencyMs |-> Trunc(event.latencyMs), success |-> event.success,
    timestamp |-> event.timestamp ]

saveMetrics_replaceTable(table, metrics) ==
  LET key == <<metrics.tenantId, metrics.toolId, metrics.capability>>
  IN  [k \in DOMAIN table |->
         IF k = key
         THEN [ tenantId |-> metrics.tenantId, toolId |-> metrics.toolId,
                capability |-> metrics.capability,
                successCount |-> Max(0, metrics.successCount),
                failureCount |-> Max(0, metrics.failureCount),
                totalLatencyMs |-> Max(0, metrics.totalLatencyMs),
                avgReward |-> metrics.avgReward,
                lastUpdated |-> metrics.lastUpdated ]
         ELSE Null]

\* The ToolMetrics table after saveMetrics(metrics): create and update write
\* the same columns.
saveMetrics(table, metrics) ==
  LET key == <<metrics.tenantId, metrics.toolId, metrics.capability>>
  IN  [table EXCEPT ![key] =
         [ tenantId |-> metrics.tenantId, toolId |-> metrics.toolId,
           capability |-> metrics.capability,
           successCount |-> Max(0, metrics.successCount),
           failureCount |-> Max(0, metrics.failureCount),
           totalLatencyMs |-> Max(0, metrics.totalLatencyMs),
           avgReward |-> metrics.avgReward,
           lastUpdated |-> metrics.lastUpdated ]]

(* --------------------------- MetricsService ---------------------------- *)

clampReward(value) ==
  IF IsNaN(value) THEN Zero
  ELSE IF RLt(value, <<-1, 1>>) THEN <<-1, 1>>
  ELSE IF RLt(One, value) THEN One
  ELSE value

MetricsService_clamp01_unclamped(value) ==
  IF IsNaN(value) THEN Zero ELSE value

MetricsService_clamp01(value) ==
  IF IsNaN(value) THEN Zero
  ELSE IF RLt(value, Zero) THEN Zero
  ELSE IF RLt(One, value) THEN One
  ELSE value

\* config.rewardEwmaAlpha ?? 0.2
rewardEwmaAlpha == <<1, 5>>
alpha == MetricsService_clamp01(rewardEwmaAlpha)

\* this.alpha of a MetricsService constructed with { rewardEwmaAlpha: configured }.
MetricsServiceAlpha(configured) ==
  MetricsService_clamp01(IF configured = Undefined THEN rewardEwmaAlpha ELSE configured)

ewma_swapped(oldValue, newValue, a) ==
  clampReward(RAdd(RMul(a, clampReward(oldValue)),
                   RMul(RSub(One, a), clampReward(newValue))))

ewma_accumulate(oldValue, newValue, a) == RAdd(oldValue, RMul(a, newValue))

ewma(oldValue, newValue, a) ==
  clampReward(RAdd(RMul(RSub(One, a), clampReward(oldValue)),
                   RMul(a, clampReward(newValue))))

feedbackNext_baseline(existing, signal, now) ==
  [ tenantId |-> signal.tenantId, toolId |-> signal.toolId,
    capability |-> signal.capability,
    successCount |-> 0, failureCount |-> 0, totalLatencyMs |-> 0,
    avgReward |-> IF existing # Null
                  THEN ewma(existing.avgReward, clampReward(signal.reward), alpha)
                  ELSE clampReward(signal.reward),
    lastUpdated |-> now ]

\* The ToolMetrics value recordFeedbackTelemetry(signal) hands to saveMetrics.
feedbackNext(existing, signal, now) ==
  LET reward == clampReward(signal.reward)
  IN  IF existing # Null
      THEN [existing EXCEPT !.avgReward = ewma(existing.avgReward, reward, alpha),
                            !.lastUpdated = now]
      ELSE [ tenantId |-> signal.tenantId, toolId |-> signal.toolId,
             capability |-> signal.capability,
             successCount |-> 0, failureCount |-> 0, totalLatencyMs |-> 0,
             avgReward |-> reward,
             lastUpdated |-> now ]

recordFeedbackTelemetry(table, signal, now) ==
  LET existing == getMetrics(table, signal.tenantId, signal.toolId, signal.capability)
  IN  saveMetrics(table, feedbackNext(existing, signal, now))

(* ------------------------- PlanBuilderService -------------------------- *)

EndpointUndefined == [undefined |-> TRUE]
Pending == [pending |-> TRUE]
NoPlan == [none |-> TRUE]

isPlanEndpoint_any(rec) == TRUE

isPlanEndpoint(rec) ==
  /\ rec.type = Str("http")
  /\ TypeOf(rec.url) = "string"
  /\ rec.method \in {Str("GET"), Str("POST"), Str("PUT"), Str("DELETE")}
  /\ TypeOf(rec.timeoutMs) = "number"

extractEndpoint(tool) ==
  IF tool.endpoint = NoEndpoint THEN EndpointUndefined
  ELSE IF ~isPlanEndpoint(tool.endpoint) THEN EndpointUndefined
  ELSE tool.endpoint

selectPrimary_last(scores) ==
  IF Len(scores) = 0 THEN Null
  ELSE [toolId |-> scores[Len(scores)].toolId, reason |-> "highest_score", rank |-> 1]

selectPrimary(scores) ==
  IF Len(scores) = 0 THEN Null
  ELSE [toolId |-> scores[1].toolId, reason |-> "highest_score", rank |-> 1]

selectFallback_none(scores, selectedToolId) == Null

\* scores.find(...): the first element with another tool id.
selectFallback(scores, selectedToolId) ==
  LET others == {i \in DOMAIN scores : scores[i].toolId # selectedToolId}
  IN  IF others = {} THEN Null
      ELSE LET first == CHOOSE i \in others : \A j \in others : i <= j
           IN  [toolId |-> scores[first].toolId, reason |-> "next_best", rank |-> 2]

\* tools.find(...): the first tool with the id, if any.
HasTool(tools, toolId) == \E i \in DOMAIN tools : tools[i].id = toolId
FindTool(tools, toolId) ==
  tools[CHOOSE i \in DOMAIN tools :
          /\ tools[i].id = toolId
          /\ \A j \in DOMAIN tools : tools[j].id = toolId => i <= j]

Terminate_failure(status, error) == [terminate |-> [status |-> "failure", error |-> error]]

Terminate(status, error) == [terminate |-> [status |-> status, error |-> error]]

\* The result of buildSteps: the steps, or threw = TRUE.
buildSteps(tools, selected, fallback) ==
  IF selected = Null THEN [threw |-> FALSE, steps |-> <<>>]
  ELSE IF ~HasTool(tools, selected.toolId) THEN [threw |-> TRUE, steps |-> <<>>]
  ELSE
    LET primaryTool == FindTool(tools, selected.toolId)
        step1 ==
          [ id |-> "step-1",
            action |-> "invoke_tool",
            toolRef |-> [toolId |-> primaryTool.id, endpoint |-> extractEndpoint(primaryTool)],
            onSuccess |-> [completePlan |-> (fallback = Null)],
            onFailure |-> IF fallback # Null
                          THEN [goto |-> "step-2", record |-> "fallback"]
                          ELSE Terminate("failure", "PRIMARY_FAILED"),
            onTimeout |-> Terminate("timeout", "per-tool-timeout") ]
    IN  IF fallback = Null THEN [threw |-> FALSE, steps |-> <<step1>>]
        ELSE IF ~HasTool(tools, fallback.toolId) THEN [threw |-> FALSE, steps |-> <<step1>>]
        ELSE
          LET fallbackTool == FindTool(tools, fallback.toolId)
              step2 ==
                [ id |-> "step-2",
                  action |-> "invoke_tool",
                  toolRef |-> [toolId |-> fallbackTool.id,
                               endpoint |-> extractEndpoint(fallbackTool)],
                  onSuccess |-> [completePlan |-> TRUE],
                  onFailure |-> Terminate("failure", "ALL_CANDIDATES_FAILED"),
                  onTimeout |-> Terminate("timeout", "per-tool-timeout") ]
          IN  [threw |-> FALSE, steps |-> <<step1, step2>>]

\* new Map(rows): rows are in tool order, a later row of the same id wins.
metricsMapOf(tools, rows) ==
  [id \in {tools[i].id : i \in DOMAIN tools} |->
     rows[CHOOSE i \in DOMAIN tools :
            /\ tools[i].id = id
            /\ \A j \in DOMAIN tools : tools[j].id = id => j <= i]]

\* scoringEngine.rankCandidates(tools, lookup, scoringConfig, capability) with
\* the ScoringEngine and DEFAULT_SCORING_CONFIG that buildRuntimeDeps wires in.
rankCandidates(tools, metricsByToolId, cfg, capability) ==
  scoreCandidates(cfg, tools, metricsByToolId, capability)

\* ranked.map((r) => ({toolId, score, explain})).
planCandidates(ranked) ==
  [i \in DOMAIN ranked |->
     [toolId |-> ranked[i].toolId, score |-> ranked[i].score, explain |-> ranked[i].explain]]

\* Step 6 of buildPlan: the plan envelope around the steps built (or threw =
\* TRUE when buildSteps threw).
planEnvelope(planId, createdAt, capability, ranked, selected, fallback, built) ==
  [ threw |-> built.threw,
    fallback |-> fallback,
    plan |-> [ planId |-> planId,
               schemaVersion |-> "1.0",
               createdAt |-> createdAt,
               context |-> [tenant |-> Tenant],
               goal |-> [capability |-> capability],
               policy |-> [preconditionsPassed |-> TRUE, policyDecision |-> "allow"],
               candidates |-> planCandidates(ranked),
               selected |-> selected,
               retry |-> [maxAttemptsPerStep |-> 1],
               steps |-> built.steps ] ]

\* Step 5 of buildPlan, given the selection.
planWithSteps(planId, createdAt, capability, tools, ranked, selected, fallback) ==
  planEnvelope(planId, createdAt, capability, ranked, selected, fallback,
               buildSteps(tools, selected, fallback))

\* Step 4 of buildPlan, given the primary: selectFallback(ranked, selected?.toolId).
planWithPrimary(planId, createdAt, capability, tools, ranked, selected) ==
  planWithSteps(planId, createdAt, capability, tools, ranked, selected,
                selectFallback(ranked, IF selected = Null THEN "undefined" ELSE selected.toolId))

\* Steps 4 to 6 of buildPlan, given the ranking.
planOfRanked(planId, createdAt, capability, tools, ranked) ==
  planWithPrimary(planId, createdAt, capability, tools, ranked, selectPrimary(ranked))

\* Steps 3 to 6 of buildPlan: the plan document, or threw = TRUE.
assemblePlan(planId, createdAt, capability, tools, metricsByToolId) ==
  planOfRanked(planId, createdAt, capability, tools,
               rankCandidates(tools, metricsByToolId, DEFAULT_SCORING_CONFIG, capability))

(* --------------------------- PostgresPlanStore ------------------------- *)

savePlan_lost(documents, planId, plan) == documents

savePlan(documents, planId, plan) ==
  Append(documents, [planId |-> planId, tenantId |-> plan.context.tenant,
                     createdAt |-> plan.createdAt, payload |-> plan])

\* findFirst({where: {planId}}): the payload of the first matching row.
getPlan(documents, planId) ==
  LET hits == {i \in DOMAIN documents : documents[i].planId = planId}
  IN  IF hits = {} THEN NoPlan
      ELSE documents[CHOOSE i \in hits : \A j \in hits : i <= j].payload

(* ------------------------------ the system ----------------------------- *)

IdleCall ==
  [ pc |-> "idle", capability |-> "", planId |-> 0, createdAt |-> 0,
    fetched |-> FALSE, tools |-> <<>>, rows |-> <<>>, fallback |-> Null,
    plan |-> NoPlan, error |-> "", thrown |-> "", order |-> <<>>,
    calls |-> [getToolsForCapability |-> 0, getMetrics |-> <<>>, savePlan |-> 0] ]

NoCall ==
  [ op |-> "none", tenantId |-> "", toolId |-> "", capability |-> "",
    success |-> FALSE, latencyMs |-> Zero, reward |-> Zero, existing |-> Null, now |-> 0 ]

\* A recordExecution call that has not started.
IdleExecution == [pc |-> "idle", success |-> FALSE, latencyMs |-> Zero, existing |-> Null]

NoScoring == [made |-> FALSE]

NoMixing == [made |-> FALSE]

\* A recordFeedbackTelemetry call that has not started.
IdleFeedback ==
  [ pc |-> "idle", reward |-> Zero, existing |-> Null, next |-> Null, found |-> FALSE,
    prior |-> Null ]

Init ==
  /\ toolMetrics = [k \in Keys |-> Null]
  /\ executionEvents = EmptyBag
  /\ planDocuments = <<>>
  /\ clock = 1
  /\ nextPlanId = 0
  /\ bp = IdleCall
  /\ last = NoCall
  /\ nTelemetry = 0
  /\ inflight = [i \in 1..MaxConcurrent |-> IdleExecution]
  /\ scoring = NoScoring
  /\ mixing = NoMixing
  /\ feedbackCall = IdleFeedback

awaitRejected_generic(reason) == "Internal error"

\* await of a promise that rejects: the async function rejects with the same
\* reason, there being no try/catch around any await of buildPlan.
awaitRejected(reason) == reason

noCandidates_never(tools) == FALSE

\* if (tools.length === 0) throw ...
noCandidates(tools) == Len(tools) = 0

\* buildPlan up to the answer of toolRegistry.getToolsForCapability.
BuildPlanGetTools(capability, tools) ==
  /\ bp.pc \in {"idle", "returned", "failed"}
  /\ nextPlanId' = nextPlanId + 1
  /\ clock' = clock + 1
  /\ bp' = IF noCandidates(tools)
           THEN [IdleCall EXCEPT !.pc = "failed", !.capability = capability,
                                 !.planId = nextPlanId + 1, !.createdAt = clock,
                                 !.fetched = TRUE, !.tools = tools,
                                 !.calls.getToolsForCapability = 1,
                                 !.error = "No tools registered"]
           ELSE [IdleCall EXCEPT !.pc = "metrics", !.capability = capability,
                                 !.planId = nextPlanId + 1, !.createdAt = clock,
                                 !.fetched = TRUE, !.tools = tools,
                                 !.calls.getToolsForCapability = 1,
                                 !.calls.getMetrics = [i \in DOMAIN tools |-> 1],
                                 !.rows = [i \in DOMAIN tools |-> Pending]]
  /\ UNCHANGED <<toolMetrics, executionEvents, planDocuments, last, nTelemetry, inflight, scoring,
                 mixing, feedbackCall>>

\* toolRegistry.getToolsForCapability rejects.
BuildPlanRegistryFails(capability) ==
  /\ bp.pc \in {"idle", "returned", "failed"}
  /\ nextPlanId' = nextPlanId + 1
  /\ clock' = clock + 1
  /\ bp' = [IdleCall EXCEPT !.pc = "failed", !.capability = capability,
                            !.planId = nextPlanId + 1, !.createdAt = clock,
                            !.calls.getToolsForCapability = 1,
                            !.thrown = "registry unreachable",
                            !.error = awaitRejected("registry unreachable")]
  /\ UNCHANGED <<toolMetrics, executionEvents, planDocuments, last, nTelemetry, inflight, scoring,
                 mixing, feedbackCall>>

\* First index of a read that is still pending.
FirstPending(rows) == CHOOSE j \in DOMAIN rows : rows[j] = Pending /\ \A l \in 1..(j - 1) : rows[l] # Pending

LoadMetricsRead_arrival(i) ==
  /\ bp.pc = "metrics"
  /\ i \in DOMAIN bp.rows
  /\ bp.rows[i] = Pending
  /\ bp' = [bp EXCEPT !.rows[FirstPending(bp.rows)] =
                        getMetrics(toolMetrics, Tenant, bp.tools[i].id, bp.capability),
                      !.order = Append(bp.order, i)]
  /\ UNCHANGED <<toolMetrics, executionEvents, planDocuments, clock, nextPlanId, last, nTelemetry, inflight, scoring,
                 mixing, feedbackCall>>

LoadMetricsRead_upsert(i) ==
  /\ bp.pc = "metrics"
  /\ i \in DOMAIN bp.rows
  /\ bp.rows[i] = Pending
  /\ bp' = [bp EXCEPT !.rows[i] = getMetrics(toolMetrics, Tenant, bp.tools[i].id, bp.capability),
                      !.order = Append(bp.order, i)]
  /\ toolMetrics' =
       IF toolMetrics[<<Tenant, bp.tools[i].id, bp.capability>>] # Null THEN toolMetrics
       ELSE saveMetrics(toolMetrics,
                        [ tenantId |-> Tenant, toolId |-> bp.tools[i].id,
                          capability |-> bp.capability, successCount |-> 0,
                          failureCount |-> 0, totalLatencyMs |-> 0, avgReward |-> Zero,
                          lastUpdated |-> clock ])
  /\ UNCHANGED <<executionEvents, planDocuments, clock, nextPlanId, last, nTelemetry,
                 inflight, scoring, mixing, feedbackCall>>

\* One of the reads of loadMetricsMap resolves.
LoadMetricsRead(i) ==
  /\ bp.pc = "metrics"
  /\ i \in DOMAIN bp.rows
  /\ bp.rows[i] = Pending
  /\ bp' = [bp EXCEPT !.rows[i] = getMetrics(toolMetrics, Tenant, bp.tools[i].id, bp.capability),
                      !.order = Append(bp.order, i)]
  /\ UNCHANGED <<toolMetrics, executionEvents, planDocuments, clock, nextPlanId, last, nTelemetry, inflight, scoring,
                 mixing, feedbackCall>>

LoadMetricsFails_saves(i) ==
  /\ bp.pc = "metrics"
  /\ i \in DOMAIN bp.rows
  /\ bp.rows[i] = Pending
  /\ bp' = [bp EXCEPT !.pc = "failed", !.thrown = "metrics store unreachable",
                      !.error = awaitRejected("metrics store unreachable"),
                      !.calls.savePlan = 1]
  /\ planDocuments' = Append(planDocuments,
                             [planId |-> bp.planId, tenantId |-> Tenant,
                              createdAt |-> bp.createdAt, payload |-> NoPlan])
  /\ UNCHANGED <<toolMetrics, executionEvents, clock, nextPlanId, last, nTelemetry,
                 inflight, scoring, mixing, feedbackCall>>

\* One of the reads of loadMetricsMap rejects: Promise.all rejects with it.
LoadMetricsFails(i) ==
  /\ bp.pc = "metrics"
  /\ i \in DOMAIN bp.rows
  /\ bp.rows[i] = Pending
  /\ bp' = [bp EXCEPT !.pc = "failed", !.thrown = "metrics store unreachable",
                      !.error = awaitRejected("metrics store unreachable")]
  /\ UNCHANGED <<toolMetrics, executionEvents, planDocuments, clock, nextPlanId, last, nTelemetry, inflight, scoring,
                 mixing, feedbackCall>>

\* All reads are in: rank, select, build the steps and the plan, call savePlan.
BuildPlanAssemble ==
  /\ bp.pc = "metrics"
  /\ \A i \in DOMAIN bp.rows : bp.rows[i] # Pending
  /\ LET r == assemblePlan(bp.planId, bp.createdAt, bp.capability, bp.tools,
                           metricsMapOf(bp.tools, bp.rows))
     IN  bp' = IF r.threw
               THEN [bp EXCEPT !.pc = "failed", !.error = "Selected tool not found"]
               ELSE [bp EXCEPT !.pc = "saving", !.plan = r.plan, !.fallback = r.fallback,
                               !.calls.savePlan = bp.calls.savePlan + 1]
  /\ UNCHANGED <<toolMetrics, executionEvents, planDocuments, clock, nextPlanId, last, nTelemetry, inflight, scoring,
                 mixing, feedbackCall>>

\* planStore.savePlan resolves and buildPlan returns the plan.
BuildPlanSaved ==
  /\ bp.pc = "saving"
  /\ planDocuments' = savePlan(planDocuments, bp.plan.planId, bp.plan)
  /\ bp' = [bp EXCEPT !.pc = "returned"]
  /\ UNCHANGED <<toolMetrics, executionEvents, clock, nextPlanId, last, nTelemetry, inflight, scoring,
                 mixing, feedbackCall>>

\* planStore.savePlan rejects.
BuildPlanSaveFails ==
  /\ bp.pc = "saving"
  /\ bp' = [bp EXCEPT !.pc = "failed", !.plan = NoPlan, !.thrown = "plan store unreachable",
                      !.error = awaitRejected("plan store unreachable")]
  /\ UNCHANGED <<toolMetrics, executionEvents, planDocuments, clock, nextPlanId, last, nTelemetry, inflight, scoring,
                 mixing, feedbackCall>>

\* MetricsService.recordExecutionTelemetry(event).
RecordExecutionTelemetry(toolId, capability, success, latencyMs) ==
  LET event == [ planId |-> nextPlanId, stepId |-> "step-1", tenantId |-> Tenant,
                 toolId |-> toolId, capability |-> capability,
                 latencyMs |-> latencyMs, success |-> success,
                 timestamp |-> EventTimestamp ]
  IN  /\ executionEvents' = executionEvents (+) SetToBag({executionEventRow(event)})
      /\ toolMetrics' = recordExecution(toolMetrics, event, clock)
      /\ last' = [NoCall EXCEPT !.op = "execution", !.tenantId = Tenant, !.toolId = toolId,
                                !.capability = capability, !.success = success,
                                !.latencyMs = latencyMs,
                                !.existing = toolMetrics[<<Tenant, toolId, capability>>],
                                !.now = clock]
      /\ nTelemetry' = nTelemetry + 1
      /\ clock' = clock + 1
      /\ UNCHANGED <<planDocuments, nextPlanId, bp, inflight, scoring,
                 mixing, feedbackCall>>

\* MetricsService.recordFeedbackTelemetry(signal).
RecordFeedbackTelemetry(toolId, capability, reward) ==
  LET signal == [ tenantId |-> Tenant, toolId |-> toolId, capability |-> capability,
                  reward |-> reward, timestamp |-> EventTimestamp ]
  IN  /\ toolMetrics' = recordFeedbackTelemetry(toolMetrics, signal, clock)
      /\ last' = [NoCall EXCEPT !.op = "feedback", !.tenantId = Tenant, !.toolId = toolId,
                                !.capability = capability, !.reward = reward,
                                !.existing = toolMetrics[<<Tenant, toolId, capability>>],
                                !.now = clock]
      /\ nTelemetry' = nTelemetry + 1
      /\ clock' = clock + 1
      /\ UNCHANGED <<executionEvents, planDocuments, nextPlanId, bp, inflight, scoring,
                 mixing, feedbackCall>>

Next ==
  \/ nextPlanId < MaxPlans /\ \E c \in Caps, tools \in ToolLists : BuildPlanGetTools(c, tools)
  \/ nextPlanId < MaxPlans /\ \E c \in Caps : BuildPlanRegistryFails(c)
  \/ \E i \in 1..(MaxTools + 1) : LoadMetricsRead(i)
  \/ \E i \in 1..(MaxTools + 1) : LoadMetricsFails(i)
  \/ BuildPlanAssemble
  \/ BuildPlanSaved
  \/ BuildPlanSaveFails
  \/ /\ nTelemetry < MaxTelemetry
     /\ \E t \in TelemetryToolIds, c \in Caps, e \in Executions :
          RecordExecutionTelemetry(t, c, e.success, e.latencyMs)
  \/ /\ nTelemetry < MaxTelemetry
     /\ \E t \in TelemetryToolIds, c \in Caps, r \in Rewards : RecordFeedbackTelemetry(t, c, r)

Spec == Init /\ [][Next]_vars

(* ----------------------- an injected scoring engine -------------------- *)

\* PlanBuilderService takes its scoring engine from deps: here rankCandidates
\* answers any list of up to MaxTools candidate scores over the tool ids,
\* whether or not the registry returned a tool of that id.
InjectedScore(id) ==
  [ toolId |-> id, score |-> Half,
    explain |-> [ capabilityFit |-> One, slaLikelihood |-> Half, pastReward |-> Half,
                  normalizedCost |-> Half, weights |-> DEFAULT_SCORING_CONFIG.weights ] ]

InjectedRankings ==
  UNION {[1..n -> {InjectedScore(id) : id \in ToolIds}] : n \in 0..MaxTools}

\* Steps 3 to 7 of buildPlan up to the call of savePlan, the engine answering ranked.
BuildPlanAssembleInjected(ranked) ==
  /\ bp.pc = "metrics"
  /\ \A i \in DOMAIN bp.rows : bp.rows[i] # Pending
  /\ bp' = IF planOfRanked(bp.planId, bp.createdAt, bp.capability, bp.tools, ranked).threw
           THEN [bp EXCEPT !.pc = "failed", !.error = "Selected tool not found"]
           ELSE [bp EXCEPT !.pc = "saving",
                           !.plan = planOfRanked(bp.planId, bp.createdAt, bp.capability,
                                                 bp.tools, ranked).plan,
                           !.fallback = planOfRanked(bp.planId, bp.createdAt, bp.capability,
                                                     bp.tools, ranked).fallback,
                           !.calls.savePlan = bp.calls.savePlan + 1]
  /\ UNCHANGED <<toolMetrics, executionEvents, planDocuments, clock, nextPlanId, last,
                 nTelemetry, inflight, scoring, mixing, feedbackCall>>

NextInjected ==
  \/ nextPlanId < MaxPlans /\ \E c \in Caps, tools \in ToolLists : BuildPlanGetTools(c, tools)
  \/ \E i \in 1..(MaxTools + 1) : LoadMetricsRead(i)
  \/ \E ranked \in InjectedRankings : BuildPlanAssembleInjected(ranked)
  \/ BuildPlanSaved

SpecInjected == Init /\ [][NextInjected]_vars

(* ----------------------- calls one after the other --------------------- *)

Quiet == bp.pc \in {"idle", "returned", "failed"}

\* buildPlan and telemetry calls that do not overlap: the metrics store does
\* not change while a buildPlan call is reading it.
NextSerial ==
  \/ nextPlanId < MaxPlans /\ \E c \in Caps, tools \in ToolLists : BuildPlanGetTools(c, tools)
  \/ \E i \in 1..(MaxTools + 1) : LoadMetricsRead(i)
  \/ BuildPlanAssemble
  \/ BuildPlanSaved
  \/ /\ nTelemetry < MaxTelemetry /\ Quiet
     /\ \E t \in TelemetryToolIds, c \in Caps, e \in Executions :
          RecordExecutionTelemetry(t, c, e.success, e.latencyMs)
  \/ /\ nTelemetry < MaxTelemetry /\ Quiet
     /\ \E t \in TelemetryToolIds, c \in Caps, r \in Rewards : RecordFeedbackTelemetry(t, c, r)

SpecSerial == Init /\ [][NextSerial]_vars

(* --------------------------- the learning loop ------------------------- *)

\* The scenario of tests/scenarios/learningLoop.scenario.test.ts: the registry
\* holds tools A (baseCost 0.1) and B (baseCost 0.2) for the capability; calls
\* are made one after the other; the telemetry is one fast successful
\* execution of B and then feedback signals of reward 1.0 for B.
LoopToolA == [id |-> "a", baseCost |-> <<1, 10>>, capabilities |-> {"c1"}, endpoint |-> GoodEndpoint]
LoopToolB == [id |-> "b", baseCost |-> <<1, 5>>, capabilities |-> {"c1"}, endpoint |-> GoodEndpoint]

NextLoop ==
  \/ nextPlanId < LoopMaxPlans /\ BuildPlanGetTools("c1", <<LoopToolA, LoopToolB>>)
  \/ \E i \in 1..2 : LoadMetricsRead(i)
  \/ BuildPlanAssemble
  \/ BuildPlanSaved
  \/ /\ nTelemetry < LoopMaxTelemetry /\ Quiet /\ executionEvents = EmptyBag
     /\ RecordExecutionTelemetry("b", "c1", TRUE, <<200, 1>>)
  \/ /\ nTelemetry < LoopMaxTelemetry /\ Quiet /\ executionEvents # EmptyBag
     /\ RecordFeedbackTelemetry("b", "c1", One)

SpecLoop == Init /\ [][NextLoop]_vars

(* ------------------------- concurrent telemetry ------------------------ *)

\* recordExecution calls for one key, each awaiting executionEvent.create,
\* then toolMetrics.findUnique, then toolMetrics.create or update; the calls
\* interleave at the awaits.
ConcTool == "a"
ConcCapability == "c1"
ConcKey == <<Tenant, ConcTool, ConcCapability>>
ConcExecutions == {[success |-> TRUE, latencyMs |-> <<200, 1>>],
                   [success |-> FALSE, latencyMs |-> <<3000, 1>>]}

ConcEvent(i) ==
  [ planId |-> nextPlanId, stepId |-> "step-1", tenantId |-> Tenant,
    toolId |-> ConcTool, capability |-> ConcCapability,
    latencyMs |-> inflight[i].latencyMs, success |-> inflight[i].success,
    timestamp |-> EventTimestamp ]

\* recordExecution(e) is called and its executionEvent.create resolves.
ExecutionStart(i, e) ==
  /\ inflight[i].pc = "idle"
  /\ inflight' = [inflight EXCEPT ![i] = [pc |-> "find", success |-> e.success,
                                          latencyMs |-> e.latencyMs, existing |-> Null]]
  /\ executionEvents' = executionEvents (+)
       SetToBag({executionEventRow([ConcEvent(i) EXCEPT !.latencyMs = e.latencyMs,
                                                        !.success = e.success])})
  /\ UNCHANGED <<toolMetrics, planDocuments, clock, nextPlanId, bp, last, nTelemetry, scoring,
                 mixing, feedbackCall>>

\* toolMetrics.findUnique resolves with the row of the key, or null.
ExecutionFind(i) ==
  /\ inflight[i].pc = "find"
  /\ inflight' = [inflight EXCEPT ![i].pc = "write", ![i].existing = toolMetrics[ConcKey]]
  /\ UNCHANGED <<toolMetrics, executionEvents, planDocuments, clock, nextPlanId, bp, last,
                 nTelemetry, scoring,
                 mixing, feedbackCall>>

\* toolMetrics.create or toolMetrics.update is applied.  The key is the
\* table's composite id: a create for a key that has a row by now is rejected.
ExecutionWrite(i) ==
  /\ inflight[i].pc = "write"
  /\ IF inflight[i].existing = Null /\ toolMetrics[ConcKey] # Null
     THEN /\ inflight' = [inflight EXCEPT ![i].pc = "failed"]
          /\ UNCHANGED toolMetrics
     ELSE /\ inflight' = [inflight EXCEPT ![i].pc = "done"]
          /\ toolMetrics' = recordExecutionWrite(toolMetrics, inflight[i].existing,
                                                 ConcEvent(i), clock)
  /\ clock' = clock + 1
  /\ UNCHANGED <<executionEvents, planDocuments, nextPlanId, bp, last, nTelemetry, scoring,
                 mixing, feedbackCall>>

NextConc ==
  \/ \E i \in 1..MaxConcurrent, e \in ConcExecutions : ExecutionStart(i, e)
  \/ \E i \in 1..MaxConcurrent : ExecutionFind(i)
  \/ \E i \in 1..MaxConcurrent : ExecutionWrite(i)

SpecConc == Init /\ [][NextConc]_vars

(* ------------------- feedback beside an execution event ---------------- *)

\* One recordFeedbackTelemetry call and one recordExecution call (call 1 of
\* inflight) for the same key.  The feedback call awaits repo.getMetrics, then
\* inside saveMetrics toolMetrics.findUnique, then toolMetrics.create or
\* update; the steps of the two calls interleave in any order.  Before them,
\* telemetry calls for the key may have run one after the other.
ConcSignal ==
  [ tenantId |-> Tenant, toolId |-> ConcTool, capability |-> ConcCapability,
    reward |-> feedbackCall.reward, timestamp |-> EventTimestamp ]

\* recordFeedbackTelemetry is called; prior is the row of the key before
\* either of the two calls has read or written.
FeedbackStart(r) ==
  /\ feedbackCall.pc = "idle"
  /\ inflight[1].pc \in {"idle", "find"}
  /\ feedbackCall' = [IdleFeedback EXCEPT !.pc = "read", !.reward = r,
                                          !.prior = toolMetrics[ConcKey]]
  /\ UNCHANGED <<toolMetrics, executionEvents, planDocuments, clock, nextPlanId, bp, last,
                 nTelemetry, inflight, scoring, mixing>>

\* repo.getMetrics resolves and the next metrics value is computed.
FeedbackRead ==
  /\ feedbackCall.pc = "read"
  /\ feedbackCall' =
       [feedbackCall EXCEPT
          !.pc = "find",
          !.existing = getMetrics(toolMetrics, Tenant, ConcTool, ConcCapability),
          !.next = feedbackNext(getMetrics(toolMetrics, Tenant, ConcTool, ConcCapability),
                                ConcSignal, clock)]
  /\ UNCHANGED <<toolMetrics, executionEvents, planDocuments, clock, nextPlanId, bp, last,
                 nTelemetry, inflight, scoring, mixing>>

\* toolMetrics.findUnique of saveMetrics resolves.
FeedbackSaveFind ==
  /\ feedbackCall.pc = "find"
  /\ feedbackCall' = [feedbackCall EXCEPT !.pc = "write", !.found = (toolMetrics[ConcKey] # Null)]
  /\ UNCHANGED <<toolMetrics, executionEvents, planDocuments, clock, nextPlanId, bp, last,
                 nTelemetry, inflight, scoring, mixing>>

\* toolMetrics.create or update of saveMetrics is applied; a create for a key
\* that has a row by now is rejected.
FeedbackSaveWrite ==
  /\ feedbackCall.pc = "write"
  /\ IF ~feedbackCall.found /\ toolMetrics[ConcKey] # Null
     THEN /\ feedbackCall' = [feedbackCall EXCEPT !.pc = "failed"]
          /\ UNCHANGED toolMetrics
     ELSE /\ feedbackCall' = [feedbackCall EXCEPT !.pc = "done"]
          /\ toolMetrics' = saveMetrics(toolMetrics, feedbackCall.next)
  /\ clock' = clock + 1
  /\ UNCHANGED <<executionEvents, planDocuments, nextPlanId, bp, last, nTelemetry, inflight,
                 scoring, mixing>>

BothIdle == feedbackCall.pc = "idle" /\ inflight[1].pc = "idle"

NextMixed ==
  \/ /\ nTelemetry < MaxTelemetry /\ BothIdle
     /\ \E e \in Executions :
          RecordExecutionTelemetry(ConcTool, ConcCapability, e.success, e.latencyMs)
  \/ /\ nTelemetry < MaxTelemetry /\ BothIdle
     /\ \E r \in Rewards : RecordFeedbackTelemetry(ConcTool, ConcCapability, r)
  \/ \E e \in ConcExecutions : ExecutionStart(1, e)
  \/ ExecutionFind(1)
  \/ ExecutionWrite(1)
  \/ \E r \in Rewards : FeedbackStart(r)
  \/ FeedbackRead
  \/ FeedbackSaveFind
  \/ FeedbackSaveWrite

SpecMixed == Init /\ [][NextMixed]_vars

(* ------------------------- scoring on its own -------------------------- *)

\* One call of new ScoringEngine(cfg).scoreCandidates(tools, metrics, "c1")
\* on tools a, b, c (in that order; b does not declare c1), over the base
\* costs and metrics rows below and three configurations.
ScoreCosts == {<<1, 10>>, <<1, 5>>, <<3, 1>>, Undefined, NaN}
ScoreMetricsKinds == {"none", "good", "bad"}
ScoreIds == <<"a", "b", "c">>
ScoreCapability == "c1"

ScoreCapabilities(id) == IF id = "b" THEN {"c2"} ELSE {"c1"}

ScoreRow(id, kind) ==
  IF kind = "none" THEN Null
  ELSE [ tenantId |-> Tenant, toolId |-> id, capability |-> ScoreCapability,
         successCount |-> IF kind = "good" THEN 1 ELSE 0,
         failureCount |-> IF kind = "good" THEN 0 ELSE 3,
         totalLatencyMs |-> IF kind = "good" THEN 200 ELSE 9000,
         avgReward |-> IF kind = "good" THEN One ELSE <<-1, 1>>,
         lastUpdated |-> 0 ]

\* DEFAULT_SCORING_CONFIG with a default latency above the reasonable maximum.
SlowDefaultConfig == [DEFAULT_SCORING_CONFIG EXCEPT !.defaultLatencyMs = <<3000, 1>>]

\* A configuration whose weights do not sum to 1 (one is negative) and whose
\* cold-start defaults lie outside [0, 1].
OutOfRangeConfig ==
  [ weights |-> [fit |-> One, sla |-> One, reward |-> <<-2, 1>>, cost |-> One],
    defaultSuccessRate |-> <<6, 5>>,
    defaultLatencyMs |-> <<800, 1>>,
    defaultReward |-> <<3, 2>>,
    maxReasonableLatencyMs |-> <<1000, 1>>,
    slaSuccessWeight |-> <<7, 10>>,
    slaLatencyWeight |-> <<3, 10>> ]

ScoreConfigs == {DEFAULT_SCORING_CONFIG, SlowDefaultConfig, OutOfRangeConfig}

ScoreInputs ==
  UNION {[1..n -> [baseCost : ScoreCosts, metrics : ScoreMetricsKinds]] : n \in 1..MaxScoreTools}

ScoreTools(in) ==
  [i \in DOMAIN in |->
     [ id |-> ScoreIds[i], baseCost |-> in[i].baseCost,
       capabilities |-> ScoreCapabilities(ScoreIds[i]), endpoint |-> NoEndpoint ]]

ScoreMetrics(in) ==
  [id \in {ScoreIds[i] : i \in DOMAIN in} |->
     ScoreRow(id, in[CHOOSE i \in DOMAIN in : ScoreIds[i] = id].metrics)]

ScoreCandidates(cfg, in) ==
  /\ ~scoring.made
  /\ scoring' = [ made |-> TRUE, cfg |-> cfg, tools |-> ScoreTools(in),
                  metrics |-> ScoreMetrics(in), capability |-> ScoreCapability,
                  ranked |-> scoreCandidates(cfg, ScoreTools(in), ScoreMetrics(in),
                                             ScoreCapability) ]
  /\ UNCHANGED <<toolMetrics, executionEvents, planDocuments, clock, nextPlanId, bp, last,
                 nTelemetry, inflight,
                 mixing, feedbackCall>>

NextScore == \E cfg \in ScoreConfigs, in \in ScoreInputs : ScoreCandidates(cfg, in)

SpecScore == Init /\ [][NextScore]_vars

(* ------------------------ smoothing on its own ------------------------- *)

\* One avgReward update of recordFeedbackTelemetry on an existing row,
\* ewma(existing.avgReward, reward, this.alpha), in a MetricsService
\* constructed with the configured smoothing constant.
MixAlphas == {Undefined, NaN, <<-1, 2>>, Zero, <<1, 5>>, Half, One, <<3, 2>>}
MixRewards == {<<-1, 1>>, <<-1, 2>>, Zero, Half, One}

ApplyEwma(configured, old, reward) ==
  /\ ~mixing.made
  /\ mixing' = [ made |-> TRUE, configured |-> configured,
                 alpha |-> MetricsServiceAlpha(configured),
                 old |-> old, reward |-> reward,
                 result |-> ewma(old, clampReward(reward), MetricsServiceAlpha(configured)) ]
  /\ UNCHANGED <<toolMetrics, executionEvents, planDocuments, clock, nextPlanId, bp, last,
                 nTelemetry, inflight, scoring, feedbackCall>>

NextMix == \E a \in MixAlphas, old \in MixRewards, r \in MixRewards : ApplyEwma(a, old, r)

SpecMix == Init /\ [][NextMix]_vars

(* ------------------------------ properties ---------------------------- *)

PlanReady == bp.pc \in {"saving", "returned"}
ToolWithId(tools, id) == tools[CHOOSE i \in DOMAIN tools : tools[i].id = id]
IsGoto(t) == "goto" \in DOMAIN t
IsTerminate(t, status) == "terminate" \in DOMAIN t /\ t.terminate.status = status

\* C1: when the registry answers with zero tools, buildPlan fails with the
\* no-candidates error, holds no plan and stores none; and no plan that
\* buildPlan returns has an empty candidates list.
C1_NoCandidatesFails ==
  /\ (bp.fetched /\ Len(bp.tools) = 0) =>
       /\ bp.pc = "failed"
       /\ bp.error = "No tools registered"
       /\ bp.plan = NoPlan
       /\ getPlan(planDocuments, bp.planId) = NoPlan
  /\ (bp.pc = "returned" => Len(bp.plan.candidates) > 0)

C1_Witness == bp.fetched /\ Len(bp.tools) = 0 /\ bp.pc = "failed"

\* C2: a plan that buildPlan has returned is in the plan store under its own
\* planId with the same content, and when savePlan failed the call holds no
\* plan.
C2_ReturnedPlanIsSaved ==
  /\ (bp.pc = "returned" =>
        /\ bp.plan # NoPlan
        /\ bp.plan.planId = bp.planId
        /\ getPlan(planDocuments, bp.plan.planId) = bp.plan)
  /\ (bp.pc = "failed" /\ bp.error = "plan store unreachable" =>
        /\ bp.plan = NoPlan
        /\ getPlan(planDocuments, bp.planId) = NoPlan)

C2_Witness == bp.pc = "returned" /\ Len(planDocuments) > 0

\* C3: two candidates with distinct tool ids give exactly 2 steps, step-1 on
\* the selected rank-1 tool and step-2 on the next-best one; one candidate
\* gives exactly 1 step without a goto transition.
C3_StepsPerCandidates ==
  bp.pc = "returned" =>
    LET st == bp.plan.steps
        c == bp.plan.candidates
    IN  /\ (Len(bp.tools) = 2 /\ bp.tools[1].id # bp.tools[2].id) =>
              /\ Len(st) = 2
              /\ st[1].id = "step-1" /\ st[2].id = "step-2"
              /\ st[1].toolRef.toolId = bp.plan.selected.toolId
              /\ st[1].toolRef.toolId = c[1].toolId
              /\ st[2].toolRef.toolId = c[2].toolId
        /\ Len(bp.tools) = 1 =>
              /\ Len(st) = 1
              /\ st[1].toolRef.toolId = bp.tools[1].id
              /\ ~IsGoto(st[1].onFailure)
              /\ ~IsGoto(st[1].onSuccess)
              /\ ~IsGoto(st[1].onTimeout)

C3_Witness ==
  /\ bp.pc = "returned"
  /\ Len(bp.tools) = 2
  /\ \A i \in 1..2 : bp.capability \in bp.tools[i].capabilities
  /\ Len(bp.plan.steps) = 2

\* C4: the selected tool is the first ranked candidate, rank 1, reason
\* "highest_score"; the fallback is the first ranked candidate with another
\* tool id, reason "next_best"; step-1 and step-2 never name the same tool;
\* there is no fallback with fewer than 2 distinct tool ids.
C4_PrimaryAndFallback ==
  PlanReady =>
    LET c == bp.plan.candidates
        sel == bp.plan.selected
        st == bp.plan.steps
        others == {i \in DOMAIN c : c[i].toolId # c[1].toolId}
    IN  /\ sel = [toolId |-> c[1].toolId, reason |-> "highest_score", rank |-> 1]
        /\ st[1].toolRef.toolId = sel.toolId
        /\ (Cardinality({c[i].toolId : i \in DOMAIN c}) < 2) =>
              bp.fallback = Null /\ Len(st) = 1
        /\ others # {} =>
              /\ bp.fallback # Null
              /\ bp.fallback.reason = "next_best"
              /\ \E i \in others : /\ \A j \in others : i <= j
                                   /\ bp.fallback.toolId = c[i].toolId
              /\ Len(st) = 2
              /\ st[2].toolRef.toolId = bp.fallback.toolId
              /\ st[1].toolRef.toolId # st[2].toolRef.toolId

C4_Witness == bp.pc = "returned" /\ bp.fallback # Null /\ Len(bp.plan.candidates) = 2

\* C5: step-1 goes to "step-2" on failure exactly when a fallback exists and
\* otherwise terminates with failure; step-1 completes the plan on success
\* exactly when there is no fallback; every step terminates with timeout on
\* timeout; step-2 completes the plan on success and terminates with failure
\* on failure.
C5_Transitions ==
  bp.pc = "returned" =>
    LET st == bp.plan.steps
        hasFallback == \E i \in DOMAIN bp.plan.candidates :
                          bp.plan.candidates[i].toolId # bp.plan.selected.toolId
    IN  /\ hasFallback <=> Len(st) = 2
        /\ hasFallback <=> (IsGoto(st[1].onFailure) /\ st[1].onFailure.goto = "step-2")
        /\ ~hasFallback <=> IsTerminate(st[1].onFailure, "failure")
        /\ st[1].onSuccess.completePlan <=> ~hasFallback
        /\ \A i \in DOMAIN st : IsTerminate(st[i].onTimeout, "timeout")
        /\ Len(st) = 2 =>
              /\ st[2].id = "step-2"
              /\ st[2].onSuccess.completePlan
              /\ IsTerminate(st[2].onFailure, "failure")

C5_Witness ==
  /\ bp.pc = "returned"
  /\ Len(bp.plan.steps) = 2
  /\ IsGoto(bp.plan.steps[1].onFailure)

\* Lexicographic order of the tool ids.
IdRank(id) == CASE id = "a" -> 1 [] id = "b" -> 2 [] id = "c" -> 3 [] OTHER -> 4

\* C6: the ranked candidates are sorted by descending score, and candidates
\* with equal score stand in ascending toolId order, whatever the order the
\* tools were passed in.
C6_RankedOrder ==
  PlanReady =>
    LET c == bp.plan.candidates
    IN  \A i, j \in DOMAIN c :
          i < j => \/ RLt(c[j].score, c[i].score)
                   \/ c[i].score = c[j].score /\ IdRank(c[i].toolId) < IdRank(c[j].toolId)

\* C7: under the default configuration a tool that does not declare the
\* requested capability has capabilityFit 0 (one that declares it has 1), and
\* it is not the selected tool when some candidate declares the capability.
C7_CapabilityFit ==
  PlanReady =>
    LET c == bp.plan.candidates
        declares(id) == bp.capability \in ToolWithId(bp.tools, id).capabilities
    IN  /\ Len(c) = Len(bp.tools)
        /\ \A i \in DOMAIN c :
             c[i].explain.capabilityFit = IF declares(c[i].toolId) THEN One ELSE Zero
        /\ (\E i \in DOMAIN bp.tools : bp.capability \in bp.tools[i].capabilities) =>
             declares(bp.plan.selected.toolId)

C7_Witness ==
  /\ bp.pc = "returned"
  /\ \E i, j \in DOMAIN bp.tools :
       /\ bp.capability \in bp.tools[i].capabilities
       /\ bp.capability \notin bp.tools[j].capabilities
  /\ \E i \in DOMAIN bp.plan.candidates :
       bp.plan.candidates[i].explain.capabilityFit = Zero

LastKey == <<last.tenantId, last.toolId, last.capability>>
Prior(field) == IF last.existing = Null THEN 0 ELSE last.existing[field]

\* C9 as stated: recordExecution(event) leaves a row with successCount and
\* failureCount raised by 1 or 0 as event.success says, and totalLatencyMs
\* raised by event.latencyMs, from 0 (and avgReward 0) when there was no row.
C9_ExecutionDeltas ==
  last.op = "execution" =>
    LET row == toolMetrics[LastKey]
    IN  /\ row # Null
        /\ row.successCount = Prior("successCount") + (IF last.success THEN 1 ELSE 0)
        /\ row.failureCount = Prior("failureCount") + (IF last.success THEN 0 ELSE 1)
        /\ Int2R(row.totalLatencyMs) = RAdd(Int2R(Prior("totalLatencyMs")), last.latencyMs)
        /\ last.existing = Null => row.avgReward = Zero

\* C9 amended: as C9, but totalLatencyMs is raised by the integer part of
\* event.latencyMs.
C9_ExecutionDeltasTruncated ==
  last.op = "execution" =>
    LET row == toolMetrics[LastKey]
    IN  /\ row # Null
        /\ row.successCount = Prior("successCount") + (IF last.success THEN 1 ELSE 0)
        /\ row.failureCount = Prior("failureCount") + (IF last.success THEN 0 ELSE 1)
        /\ row.totalLatencyMs = Prior("totalLatencyMs") + (last.latencyMs[1] \div last.latencyMs[2])
        /\ last.existing = Null => row.avgReward = Zero

C9_Witness ==
  /\ last.op = "execution"
  /\ last.existing # Null
  /\ last.existing.successCount + last.existing.failureCount > 0
  /\ last.latencyMs[2] # 1

ClampTo(lo, hi, x) == IF RLt(x, lo) THEN lo ELSE IF RLt(hi, x) THEN hi ELSE x

\* C10: recordFeedback(signal) sets avgReward to
\* clamp((1 - 0.2) * oldAvgReward + 0.2 * reward, -1, 1) on an existing row,
\* creates a row with zero counters and avgReward = clamp(reward, -1, 1) when
\* there is none, and sets lastUpdated to the clock's current time.
C10_FeedbackEwma ==
  last.op = "feedback" =>
    LET row == toolMetrics[LastKey]
        old == last.existing
    IN  /\ row # Null
        /\ row.lastUpdated = last.now
        /\ old # Null =>
             row.avgReward = ClampTo(<<-1, 1>>, One,
                                     RAdd(RMul(<<4, 5>>, old.avgReward),
                                          RMul(<<1, 5>>, last.reward)))
        /\ old = Null =>
             /\ row.successCount = 0 /\ row.failureCount = 0 /\ row.totalLatencyMs = 0
             /\ row.avgReward = ClampTo(<<-1, 1>>, One, last.reward)

C10_Witness ==
  /\ last.op = "feedback"
  /\ last.existing # Null
  /\ last.existing.avgReward # last.reward
  /\ last.existing.avgReward # Zero

\* C11: every stored ToolMetrics row has successCount >= 0, failureCount >= 0,
\* totalLatencyMs >= 0 and -1 <= avgReward <= 1, in every state reached from
\* the empty store by recordExecution and recordFeedback calls.
C11_RowInvariant ==
  \A k \in Keys :
    toolMetrics[k] # Null =>
      /\ toolMetrics[k].successCount >= 0
      /\ toolMetrics[k].failureCount >= 0
      /\ toolMetrics[k].totalLatencyMs >= 0
      /\ RLe(<<-1, 1>>, toolMetrics[k].avgReward)
      /\ RLe(toolMetrics[k].avgReward, One)

\* A row that an execution event made and a feedback signal then updated.
C11_Witness ==
  /\ last.op = "feedback"
  /\ last.existing # Null
  /\ last.existing.successCount + last.existing.failureCount > 0
  /\ toolMetrics[LastKey].avgReward # Zero

\* In the learning loop every call starts at a later clock value, so the
\* telemetry calls made before the buildPlan call in bp are these.
TelemetryBefore == bp.createdAt - bp.planId

StepTools == [i \in DOMAIN bp.plan.steps |-> bp.plan.steps[i].toolRef.toolId]

RECURSIVE LatencySum(_)
LatencySum(n) == IF n = 0 THEN 0 ELSE Trunc(inflight[n].latencyMs) + LatencySum(n - 1)

\* C12: once the recordExecution calls that ran concurrently on the key have
\* all finished, the row's successCount + failureCount has grown (from the
\* empty store) by the number of calls and its totalLatencyMs by the sum of
\* their latencies, and no call has failed.
C12_NoLostUpdates ==
  (\A i \in 1..MaxConcurrent : inflight[i].pc \in {"done", "failed"}) =>
    /\ toolMetrics[ConcKey] # Null
    /\ toolMetrics[ConcKey].successCount + toolMetrics[ConcKey].failureCount = MaxConcurrent
    /\ toolMetrics[ConcKey].totalLatencyMs = LatencySum(MaxConcurrent)

In01(x) == RLe(Zero, x) /\ RLe(x, One)

\* C13: every CandidateScore that scoreCandidates returns has score,
\* explain.capabilityFit, explain.slaLikelihood, explain.pastReward and
\* explain.normalizedCost in [0, 1], for every candidate, metrics row and
\* configuration.
C13_ScoresIn01 ==
  scoring.made =>
    /\ Len(scoring.ranked) = Len(scoring.tools)
    /\ \A i \in DOMAIN scoring.ranked :
         LET r == scoring.ranked[i]
         IN  /\ ~IsNaN(r.score) /\ In01(r.score)
             /\ In01(r.explain.capabilityFit)
             /\ In01(r.explain.slaLikelihood)
             /\ In01(r.explain.pastReward)
             /\ In01(r.explain.normalizedCost)

\* Weights that push the raw score above 1 for one candidate and below 0 for
\* the other.
C13_Witness ==
  /\ scoring.made
  /\ scoring.cfg = OutOfRangeConfig
  /\ Len(scoring.ranked) = 2
  /\ scoring.ranked[1].score = One
  /\ scoring.ranked[2].score = Zero

\* The CandidateScore returned for the tool at position i of the batch.
ScoreOfTool(i) ==
  CHOOSE r \in {scoring.ranked[j] : j \in DOMAIN scoring.ranked} :
    r.toolId = scoring.tools[i].id

FiniteCost(c) == c # Undefined /\ ~IsNaN(c)

C15_SingleCandidateNeutralCost ==
  (scoring.made /\ Len(scoring.tools) = 1) =>
    /\ Len(scoring.ranked) = 1
    /\ scoring.ranked[1].explain.normalizedCost = Half

C15_Witness ==
  /\ scoring.made
  /\ Len(scoring.tools) = 1
  /\ scoring.tools[1].baseCost = <<3, 1>>
  /\ scoring.ranked[1].explain.normalizedCost = Half

ColdStart(i) == scoring.metrics[scoring.tools[i].id] = Null

\* C16 (as stated): a candidate without a metrics row gets pastReward equal to
\* the configured defaultReward and slaLikelihood equal to
\* clamp(wSuccess * defaultSuccessRate +
\*       wLatency * (1 - defaultLatencyMs / maxReasonableLatencyMs)).
C16_ColdStartDefaults ==
  scoring.made =>
    \A i \in DOMAIN scoring.tools :
      ColdStart(i) =>
        /\ ScoreOfTool(i).explain.pastReward = scoring.cfg.defaultReward
        /\ ScoreOfTool(i).explain.slaLikelihood =
             clamp01(RAdd(RMul(scoring.cfg.slaSuccessWeight, scoring.cfg.defaultSuccessRate),
                          RMul(scoring.cfg.slaLatencyWeight,
                               RSub(One, RDiv(scoring.cfg.defaultLatencyMs,
                                              scoring.cfg.maxReasonableLatencyMs)))))

\* C16 (amended): with positive defaultLatencyMs and maxReasonableLatencyMs, a
\* candidate without a metrics row gets pastReward = clamp(defaultReward) and
\* slaLikelihood = clamp(wSuccess * clamp(defaultSuccessRate) +
\*   wLatency * clamp(1 - defaultLatencyMs / maxReasonableLatencyMs));
\* under the default configuration these are 0.5 and 0.74.
C16_ColdStartClampedDefaults ==
  (/\ scoring.made
   /\ RLt(Zero, scoring.cfg.defaultLatencyMs)
   /\ RLt(Zero, scoring.cfg.maxReasonableLatencyMs)) =>
    \A i \in DOMAIN scoring.tools :
      ColdStart(i) =>
        /\ ScoreOfTool(i).explain.pastReward = clamp01(scoring.cfg.defaultReward)
        /\ ScoreOfTool(i).explain.slaLikelihood =
             clamp01(RAdd(RMul(scoring.cfg.slaSuccessWeight,
                               clamp01(scoring.cfg.defaultSuccessRate)),
                          RMul(scoring.cfg.slaLatencyWeight,
                               clamp01(RSub(One, RDiv(scoring.cfg.defaultLatencyMs,
                                                      scoring.cfg.maxReasonableLatencyMs))))))
        /\ scoring.cfg = DEFAULT_SCORING_CONFIG =>
             /\ ScoreOfTool(i).explain.pastReward = Half
             /\ ScoreOfTool(i).explain.slaLikelihood = <<37, 50>>

\* A cold-start candidate under a default latency of 3000 ms against a
\* reasonable maximum of 2000 ms: the latency score is 0, slaLikelihood 0.56.
C16_Witness ==
  /\ scoring.made
  /\ scoring.cfg = SlowDefaultConfig
  /\ ColdStart(1)
  /\ ScoreOfTool(1).explain.slaLikelihood = <<14, 25>>
  /\ ScoreOfTool(1).explain.pastReward = Half

\* C17: when getToolsForCapability, one of the getMetrics reads or savePlan
\* rejects, buildPlan rejects with that same error, has called no collaborator
\* more than once (per tool for getMetrics), and hands back no plan; the
\* rejected savePlan stored nothing.
C17_CollaboratorFailurePropagates ==
  (bp.pc = "failed" /\ bp.thrown # "") =>
    /\ bp.error = bp.thrown
    /\ bp.plan = NoPlan
    /\ bp.calls.getToolsForCapability = 1
    /\ \A i \in DOMAIN bp.calls.getMetrics : bp.calls.getMetrics[i] = 1
    /\ bp.calls.savePlan <= 1
    /\ bp.thrown = "registry unreachable" =>
         bp.calls.getMetrics = <<>> /\ bp.calls.savePlan = 0
    /\ bp.thrown = "metrics store unreachable" => bp.calls.savePlan = 0
    /\ \A i \in DOMAIN planDocuments : planDocuments[i].planId # bp.planId

\* One getMetrics read of two has resolved and the other one rejected.
C17_Witness ==
  /\ bp.pc = "failed"
  /\ bp.thrown = "metrics store unreachable"
  /\ Len(bp.tools) = 2
  /\ \E i \in DOMAIN bp.rows : bp.rows[i] # Pending
  /\ \E i \in DOMAIN bp.rows : bp.rows[i] = Pending

\* The endpoint shape the claim names: type "http", a string url, a method
\* among GET, POST, PUT, DELETE and a numeric timeoutMs.
ExpectedShape(e) ==
  /\ e.type = <<"string", "http">>
  /\ e.url[1] = "string"
  /\ \E m \in {"GET", "POST", "PUT", "DELETE"} : e.method = <<"string", m>>
  /\ e.timeoutMs[1] = "number"

\* C18: a missing or malformed meta.endpoint of a selected or fallback tool
\* does not fail buildPlan, and the tool's step carries no endpoint; a
\* well-formed endpoint is carried by the step as it is.
C18_EndpointOrNone ==
  /\ (bp.pc = "failed" /\ Len(bp.tools) > 0) => bp.thrown # ""
  /\ PlanReady =>
       /\ Len(bp.plan.steps) >= 1
       /\ \A i \in DOMAIN bp.plan.steps :
            LET ref == bp.plan.steps[i].toolRef
                tool == ToolWithId(bp.tools, ref.toolId)
            IN  IF ExpectedShape(tool.endpoint)
                THEN ref.endpoint = tool.endpoint
                ELSE ref.endpoint = EndpointUndefined

\* A returned plan whose first step runs a tool with a malformed endpoint
\* and whose fallback step runs a tool with a well-formed one.
C18_Witness ==
  /\ bp.pc = "returned"
  /\ Len(bp.plan.steps) = 2
  /\ ToolWithId(bp.tools, bp.plan.steps[1].toolRef.toolId).endpoint = BadEndpoint
  /\ bp.plan.steps[1].toolRef.endpoint = EndpointUndefined
  /\ bp.plan.steps[2].toolRef.endpoint = GoodEndpoint

\* C19: a ToolMetrics row comes into existence only in a step that applies a
\* recordExecution or recordFeedback for exactly the row's key (all rows being
\* absent at the start), and no step of recordExecution, recordFeedback or
\* buildPlan removes a row that exists.
C19_RowLifecycle ==
  [][\A k \in Keys :
       /\ (toolMetrics[k] = Null /\ toolMetrics'[k] # Null) =>
            /\ nTelemetry' = nTelemetry + 1
            /\ last'.op \in {"execution", "feedback"}
            /\ <<last'.tenantId, last'.toolId, last'.capability>> = k
            /\ last'.existing = Null
       /\ toolMetrics[k] # Null => toolMetrics'[k] # Null]_vars

\* A row for tool a is still there after a feedback signal created the row of
\* tool b and a plan was built and returned.
C19_Witness ==
  /\ toolMetrics[<<Tenant, "a", "c1">>] # Null
  /\ toolMetrics[<<Tenant, "b", "c1">>] # Null
  /\ last.op = "feedback"
  /\ last.toolId = "b"
  /\ last.existing = Null
  /\ bp.pc = "returned"
  /\ \A k \in Keys \ {<<Tenant, "a", "c1">>, <<Tenant, "b", "c1">>} : toolMetrics[k] = Null

\* A copy of the prior state that holds nothing but the given row.
CloneTable(k, row) == [j \in Keys |-> IF j = k THEN row ELSE Null]

LastEvent ==
  [ planId |-> 0, stepId |-> "step-1", tenantId |-> last.tenantId, toolId |-> last.toolId,
    capability |-> last.capability, latencyMs |-> last.latencyMs, success |-> last.success,
    timestamp |-> EventTimestamp ]

LastSignal ==
  [ tenantId |-> last.tenantId, toolId |-> last.toolId, capability |-> last.capability,
    reward |-> last.reward, timestamp |-> EventTimestamp ]

\* The row a call leaves behind is the one the same input yields on a copy of
\* the prior row at the same clock value.
Deterministic ==
  /\ last.op = "execution" =>
       toolMetrics[LastKey] =
         recordExecution(CloneTable(LastKey, last.existing), LastEvent, last.now)[LastKey]
  /\ last.op = "feedback" =>
       toolMetrics[LastKey] =
         recordFeedbackTelemetry(CloneTable(LastKey, last.existing), LastSignal, last.now)[LastKey]

\* This step applies the execution event of the previous telemetry call again.
SameExecutionAgain ==
  /\ last.op = "execution"
  /\ last'.op = "execution"
  /\ nTelemetry' = nTelemetry + 1
  /\ <<last'.tenantId, last'.toolId, last'.capability>> = LastKey
  /\ last'.success = last.success
  /\ last'.latencyMs = last.latencyMs

FitOf(id) ==
  LET c == bp.plan.candidates
  IN  c[CHOOSE i \in DOMAIN c : c[i].toolId = id].explain.capabilityFit

\* C21: in no plan that buildPlan returns is a tool of capabilityFit 0 the
\* selected tool or the fallback tool, whatever the registry returned.
C21_FitZeroNeverSelected ==
  bp.pc = "returned" =>
    /\ FitOf(bp.plan.selected.toolId) # Zero
    /\ bp.fallback # Null => FitOf(bp.fallback.toolId) # Zero

C23_Contraction ==
  mixing.made =>
    /\ \/ RLe(mixing.old, mixing.result) /\ RLe(mixing.result, mixing.reward)
       \/ RLe(mixing.reward, mixing.result) /\ RLe(mixing.result, mixing.old)
    /\ mixing.alpha = Zero => mixing.result = mixing.old
    /\ mixing.alpha = One => mixing.result = mixing.reward
    /\ (mixing.configured = <<1, 5>> /\ mixing.old = Zero /\ mixing.reward = One) =>
         mixing.result = <<1, 5>>
    /\ (mixing.configured # Undefined /\ ~IsNaN(mixing.configured)) =>
         mixing.alpha = ClampTo(Zero, One, mixing.configured)

\* A configured constant of 1.5 is used as 1: the result is the reward.
C23_Witness ==
  /\ mixing.made
  /\ mixing.configured = <<3, 2>>
  /\ mixing.old = <<-1, 2>>
  /\ mixing.reward = Half
  /\ mixing.result = Half

\* The rows that reading the candidates one after the other, in tool order,
\* finds in the store, and the plan built from them.
SequentialRows ==
  [i \in DOMAIN bp.tools |-> getMetrics(toolMetrics, Tenant, bp.tools[i].id, bp.capability)]

SequentialPlan ==
  assemblePlan(bp.planId, bp.createdAt, bp.capability, bp.tools,
               metricsMapOf(bp.tools, SequentialRows)).plan

\* C24: buildPlan issues one getMetrics read per tool the registry returned,
\* for the task's tenant and capability, and the plan it is about to return
\* is the plan of the sequential reads, in whatever order the reads completed.
C24_ReadOrderIrrelevant ==
  bp.pc = "saving" =>
    /\ bp.calls.getMetrics = [i \in DOMAIN bp.tools |-> 1]
    /\ Len(bp.order) = Len(bp.tools)
    /\ bp.rows = SequentialRows
    /\ bp.plan.candidates = SequentialPlan.candidates
    /\ bp.plan.selected = SequentialPlan.selected
    /\ bp.plan.steps = SequentialPlan.steps

\* The read for the second tool completed before the read for the first, and
\* the two reads found different things.
C24_Witness ==
  /\ bp.pc = "saving"
  /\ bp.order = <<2, 1>>
  /\ bp.rows[1] = Null
  /\ bp.rows[2] # Null

\* The transitions a step carries.
TransitionsOf(step) == {step.onSuccess, step.onFailure, step.onTimeout}

\* C25: in every returned plan the step ids are pairwise distinct and every
\* goto names the id of a step of the same plan, whatever ranking the
\* injected scoring engine answered.
C25_NoDanglingGoto ==
  bp.pc = "returned" =>
    LET st == bp.plan.steps
    IN  /\ \A i, j \in DOMAIN st : st[i].id = st[j].id => i = j
        /\ \A i \in DOMAIN st :
             \A t \in TransitionsOf(st[i]) :
               IsGoto(t) => \E j \in DOMAIN st : st[j].id = t.goto

Outcomes == {"success", "failure", "timeout"}

\* What a step says to do after an outcome: complete the plan, terminate, go
\* to a step, or nothing.
NextAction(step, outcome) ==
  LET t == CASE outcome = "success" -> step.onSuccess
             [] outcome = "failure" -> step.onFailure
             [] OTHER -> step.onTimeout
  IN  IF "completePlan" \in DOMAIN t /\ t.completePlan THEN [kind |-> "complete", target |-> ""]
      ELSE IF "terminate" \in DOMAIN t THEN [kind |-> "terminate", target |-> ""]
      ELSE IF "goto" \in DOMAIN t THEN [kind |-> "goto", target |-> t.goto]
      ELSE [kind |-> "none", target |-> ""]

HasStep(id) == \E j \in DOMAIN bp.plan.steps : bp.plan.steps[j].id = id
StepWithId(id) == bp.plan.steps[CHOOSE j \in DOMAIN bp.plan.steps : bp.plan.steps[j].id = id]

\* C26: in every returned plan each outcome of each step has a next action
\* (complete the plan, terminate, or goto a step of the plan), and a run from
\* step-1 completes or terminates after at most two tool invocations.
C26_PlanTerminates ==
  bp.pc = "returned" =>
    /\ \A i \in DOMAIN bp.plan.steps : \A o \in Outcomes :
         \/ NextAction(bp.plan.steps[i], o).kind \in {"complete", "terminate"}
         \/ /\ NextAction(bp.plan.steps[i], o).kind = "goto"
            /\ HasStep(NextAction(bp.plan.steps[i], o).target)
    /\ HasStep("step-1")
    /\ \A o1 \in Outcomes :
         (NextAction(StepWithId("step-1"), o1).kind = "goto"
            /\ HasStep(NextAction(StepWithId("step-1"), o1).target)) =>
           \A o2 \in Outcomes :
             NextAction(StepWithId(NextAction(StepWithId("step-1"), o1).target), o2).kind
               \in {"complete", "terminate"}

\* C27: no step of a buildPlan call, whether the call ends with a plan or
\* with an error, changes the ToolMetrics rows or records an execution or a
\* feedback: the metrics store is the same before and after the step.
C27_BuildPlanReadOnly ==
  [][bp' # bp =>
       /\ toolMetrics' = toolMetrics
       /\ executionEvents' = executionEvents
       /\ nTelemetry' = nTelemetry
       /\ last' = last]_vars

\* A plan was returned from rows that are still in the store as they were read.
C27_Witness ==
  /\ bp.pc = "returned"
  /\ Len(bp.tools) = 2
  /\ bp.rows[1] # Null
  /\ bp.rows[2] = Null
  /\ bp.rows = SequentialRows
  /\ nTelemetry = MaxTelemetry

\* The call failed before step 7: no candidates, a rejected registry call or a
\* rejected metrics read.
FailedBeforeSave ==
  /\ bp.pc = "failed"
  /\ \/ bp.error = "No tools registered"
     \/ bp.thrown \in {"registry unreachable", "metrics store unreachable"}

\* C28: when buildPlan fails before the persistence step, savePlan has not
\* been called, the plan store holds no document for the call's planId, and
\* the failing step leaves the plan store as it was.
C28_NoSaveOnEarlyFailure ==
  /\ [](FailedBeforeSave =>
          /\ bp.calls.savePlan = 0
          /\ \A i \in DOMAIN planDocuments : planDocuments[i].planId # bp.planId)
  /\ [][(bp' # bp /\ bp'.pc = "failed" /\ bp.pc # "saving") =>
          planDocuments' = planDocuments]_vars

\* The registry call was rejected and the plan store is empty.
C28_Witness ==
  /\ bp.pc = "failed"
  /\ bp.thrown = "registry unreachable"
  /\ bp.calls.savePlan = 0
  /\ planDocuments = <<>>

PriorCount(field) == IF feedbackCall.prior = Null THEN 0 ELSE feedbackCall.prior[field]

\* C29: when a recordFeedback and a recordExecution for the same key ran
\* concurrently, the final row holds the execution's increments of the
\* counters and of totalLatencyMs on top of the prior row, and an avgReward
\* the feedback produced, under every interleaving of their steps.
C29_BothEffects ==
  (inflight[1].pc \in {"done", "failed"} /\ feedbackCall.pc \in {"done", "failed"}) =>
    /\ toolMetrics[ConcKey] # Null
    /\ toolMetrics[ConcKey].successCount + toolMetrics[ConcKey].failureCount
         = PriorCount("successCount") + PriorCount("failureCount") + 1
    /\ toolMetrics[ConcKey].totalLatencyMs
         = PriorCount("totalLatencyMs") + Trunc(inflight[1].latencyMs)
    /\ \/ toolMetrics[ConcKey].avgReward =
            ewma(IF feedbackCall.prior = Null THEN Zero ELSE feedbackCall.prior.avgReward,
                 clampReward(feedbackCall.reward), alpha)
       \/ feedbackCall.prior = Null
            /\ toolMetrics[ConcKey].avgReward = clampReward(feedbackCall.reward)

\* The registry's answer in the opposite order.
Reversed(tools) == [i \in DOMAIN tools |-> tools[Len(tools) + 1 - i]]

\* The plan of a second run on the same tools, rows, capability and
\* configuration, the registry answering in the opposite order.
ReorderedPlan ==
  assemblePlan(bp.planId, bp.createdAt, bp.capability, Reversed(bp.tools),
               metricsMapOf(bp.tools, bp.rows)).plan

\* C30: two runs on the same set of tools, the same metrics rows, capability
\* and configuration give the same ranked candidates, the same selected tool
\* and the same steps, also when the registry returns the tools in another
\* order.
C30_OrderIndependent ==
  PlanReady =>
    /\ ReorderedPlan.candidates = bp.plan.candidates
    /\ ReorderedPlan.selected = bp.plan.selected
    /\ ReorderedPlan.steps = bp.plan.steps

====
